---- MODULE Spec2Model ----
(***************************************************************************)
(* State machine of the electra-js Wallet class (src/wallet/index.ts).     *)
(*                                                                         *)
(* One wallet instance is modelled.  Its private fields are the variables  *)
(* of the same name; every public method is one action that models the     *)
(* whole synchronous call, including the path on which it throws.  The     *)
(* async getBalance() is split at its awaits.  The collaborators whose     *)
(* code is not part of the two source files (libs/crypto, libs/electra,    *)
(* web-services) are modelled from their interface description.            *)
(***************************************************************************)
EXTENDS Integers, Sequences, FiniteSets, TLC

(***************************************************************************)
(* Bounds of the model.                                                    *)
(***************************************************************************)
\* largest <chainsCount> passed to generate()
MaxChains == 2
\* cap on the length of ADDRESSES (failed generate() calls accumulate)
MaxAddresses == 2
\* cap on the length of RANDOM_ADDRESSES
MaxRandom == 1
\* cap on the number of cipher layers a private key may carry
MaxCipherDepth == 2

\* src/wallet/index.ts:14
ONE_YEAR_IN_SECONDS == 31536000
\* src/wallet/index.ts:15
WALLET_INDEX == 0

Passphrases == {"p", "q"}
\* mnemonics that pass Electra.validateMnemonic()
Mnemonics == {"m1"}
\* a mnemonic that does not pass Electra.validateMnemonic()
BadMnemonic == "bad"
\* the <mnemonicExtension> values tried ("undefined" = parameter omitted)
Extensions == {"undefined"}
\* WIF private keys a caller may import
ImportKeys == {"k1"}
\* the JavaScript value undefined, for string-valued fields and parameters
Undefined == "undefined"

EMPTY == "EMPTY"
READY == "READY"

(***************************************************************************)
(* Private keys.  A key is the plaintext key it was made from (src, seed,  *)
(* ext, index) under a stack of cipher layers, one passphrase per          *)
(* application of Crypto.cipherPrivateKey, innermost first.                *)
(***************************************************************************)
PlainKey(src, seed, ext, wallet, index) ==
    [src |-> src, seed |-> seed, ext |-> ext, wallet |-> wallet, index |-> index,
     layers |-> <<>>]

IsCipheredKey(key) == Len(key.layers) > 0

\* Crypto.cipherPrivateKey(privateKey, passphrase)
cipherPrivateKey(key, passphrase) ==
    [key EXCEPT !.layers = Append(@, passphrase)]

\* Crypto.decipherPrivateKey succeeds on a ciphered key with its passphrase
CanDecipher(key, passphrase) ==
    /\ IsCipheredKey(key)
    /\ key.layers[Len(key.layers)] = passphrase

\* Crypto.decipherPrivateKey(privateKey, passphrase), where it succeeds
decipherPrivateKey(key, passphrase) ==
    [key EXCEPT !.layers = SubSeq(@, 1, Len(@) - 1)]

\* Electra.getAddressHashFromPrivateKey(privateKey), defined on plaintext keys
getAddressHashFromPrivateKey(key) ==
    [src |-> key.src, seed |-> key.seed, ext |-> key.ext, wallet |-> key.wallet,
     index |-> key.index]

\* the hash field of an address record a caller built without computing it
NoHash == [src |-> "none", seed |-> "", ext |-> "", wallet |-> 0, index |-> 0]

\* Electra.getMasterNodeAddressFromMnemonic(mnemonic, mnemonicExtension)
getMasterNodeAddressFromMnemonic(mnemonic, extension) ==
    LET key == PlainKey("master", mnemonic, extension, 0, 0)
    IN  [hash |-> getAddressHashFromPrivateKey(key), privateKey |-> key,
         isCiphered |-> FALSE, isHD |-> TRUE]

\* Electra.getDerivedChainFromMasterNodePrivateKey(privateKey, walletIndex, chainIndex)
getDerivedChainFromMasterNodePrivateKey(masterKey, walletIndex, chainIndex) ==
    LET key == PlainKey("chain", masterKey.seed, masterKey.ext, walletIndex, chainIndex)
    IN  [hash |-> getAddressHashFromPrivateKey(key), privateKey |-> key,
         isCiphered |-> FALSE, isHD |-> FALSE]

\* { ...address, label: null }
WithNullLabel(address) ==
    [hash |-> address.hash, privateKey |-> address.privateKey,
     isCiphered |-> address.isCiphered, isHD |-> address.isHD, label |-> "null"]


(***************************************************************************)
(* The wallet.                                                             *)
(***************************************************************************)
VARIABLES
    constructed,          \* the constructor has run
    rpc,                  \* this.rpc !== undefined
    WALLET_STATE,         \* this.STATE (STATE is a reserved word of TLA+)
    ADDRESSES,
    RANDOM_ADDRESSES,
    MASTER_NODE_ADDRESS,
    MNEMONIC,
    IS_LOCKED,
    TRANSACTIONS,
    last,                 \* the last call made on the wallet and its outcome
    balance               \* the getBalance() call in flight, or its outcome

fields == <<WALLET_STATE, ADDRESSES, RANDOM_ADDRESSES, MASTER_NODE_ADDRESS, MNEMONIC,
            IS_LOCKED, TRANSACTIONS>>
vars == <<constructed, rpc, WALLET_STATE, ADDRESSES, RANDOM_ADDRESSES, MASTER_NODE_ADDRESS,
          MNEMONIC, IS_LOCKED, TRANSACTIONS, last, balance>>

\* MASTER_NODE_ADDRESS === undefined
UndefinedAddress == [undefined |-> TRUE]

NoCall == [op |-> "none", args |-> <<>>, result |-> "ok", ret |-> <<>>,
           io |-> <<>>, before |-> <<>>, was |-> <<>>, changed |-> {}]
NoBalance == [pc |-> "idle"]

\* the names of the fields whose value a step changes
Changed ==
    (IF WALLET_STATE' # WALLET_STATE THEN {"STATE"} ELSE {})
        \cup (IF ADDRESSES' # ADDRESSES THEN {"ADDRESSES"} ELSE {})
        \cup (IF RANDOM_ADDRESSES' # RANDOM_ADDRESSES THEN {"RANDOM_ADDRESSES"} ELSE {})
        \cup (IF MASTER_NODE_ADDRESS' # MASTER_NODE_ADDRESS
              THEN {"MASTER_NODE_ADDRESS"} ELSE {})
        \cup (IF MNEMONIC' # MNEMONIC THEN {"MNEMONIC"} ELSE {})
        \cup (IF IS_LOCKED' # IS_LOCKED THEN {"IS_LOCKED"} ELSE {})
        \cup (IF TRANSACTIONS' # TRANSACTIONS THEN {"TRANSACTIONS"} ELSE {})

\* A call, as its caller sees it, once the fields have their new values: <result>
\* is "ok" or the kind of error thrown, <ret> the value returned, <io> the calls
\* made to Crypto or Rpc in order (for generate() the Electra call that threw),
\* <before> the addresses held before a lock() or an unlock() (for generate() the
\* HD addresses held before it), <was> the state, the lock flag and the presence of a master node
\* when the call was made, <changed> the fields the call changed.
RecordFrom(op, args, result, ret, io, before) ==
    last' = [op |-> op, args |-> args, result |-> result, ret |-> ret, io |-> io,
             before |-> before,
             was |-> [STATE |-> WALLET_STATE, IS_LOCKED |-> IS_LOCKED,
                      master |-> MASTER_NODE_ADDRESS # UndefinedAddress],
             changed |-> Changed]

Record(op, args, result, ret, io) == RecordFrom(op, args, result, ret, io, <<>>)

\* field initialisers of the class (lines 22, 42, 66, 89, 92, 118, 130)
Init ==
    /\ constructed = FALSE
    /\ rpc = FALSE
    /\ WALLET_STATE = EMPTY
    /\ ADDRESSES = <<>>
    /\ RANDOM_ADDRESSES = <<>>
    /\ MASTER_NODE_ADDRESS = UndefinedAddress
    /\ MNEMONIC = Undefined
    /\ IS_LOCKED = FALSE
    /\ TRANSACTIONS = <<>>
    /\ last = NoCall
    /\ balance = NoBalance

\* new Wallet(settings)
Constructor(hasUri, hasAuth) ==
    /\ ~constructed
    /\ constructed' = TRUE
    /\ rpc' = (hasUri /\ hasAuth)
    /\ WALLET_STATE' = IF hasUri /\ hasAuth THEN READY ELSE WALLET_STATE
    /\ UNCHANGED <<ADDRESSES, RANDOM_ADDRESSES, MASTER_NODE_ADDRESS, MNEMONIC,
                   IS_LOCKED, TRANSACTIONS, balance>>
    /\ Record("constructor", [rpcServerUri |-> hasUri, rpcServerAuth |-> hasAuth],
              "ok", <<>>, <<>>)

(***************************************************************************)
(* Read accessors.  A getter changes nothing, so it is a function of the   *)
(* state: [ok, value], where ok = FALSE stands for the throw and value     *)
(* then names the kind of error.                                           *)
(***************************************************************************)
Returned(value) == [ok |-> TRUE, value |-> value]
Thrown(kind) == [ok |-> FALSE, value |-> kind]

addresses == IF WALLET_STATE # READY THEN Thrown("StateError") ELSE Returned(ADDRESSES)

randomAddresses ==
    IF WALLET_STATE # READY THEN Thrown("StateError") ELSE Returned(RANDOM_ADDRESSES)

allAddresses ==
    IF WALLET_STATE # READY THEN Thrown("StateError")
    ELSE IF ~addresses.ok THEN addresses
    ELSE IF ~randomAddresses.ok THEN randomAddresses
    ELSE Returned(addresses.value \o randomAddresses.value)

isHD ==
    IF WALLET_STATE # READY THEN Thrown("StateError")
    ELSE Returned(MASTER_NODE_ADDRESS # UndefinedAddress)

isLocked == IF WALLET_STATE # READY THEN Thrown("StateError") ELSE Returned(IS_LOCKED)

mnemonic_NoStateCheck ==
    IF MNEMONIC = Undefined THEN Thrown("NoMnemonicError") ELSE Returned(MNEMONIC)

mnemonic ==
    IF WALLET_STATE # READY THEN Thrown("StateError")
    ELSE IF MNEMONIC = Undefined THEN Thrown("NoMnemonicError")
    ELSE Returned(MNEMONIC)

state == Returned(WALLET_STATE)

transactions == IF WALLET_STATE # READY THEN Thrown("StateError") ELSE Returned(TRANSACTIONS)

(***************************************************************************)
(* generate(mnemonic?, mnemonicExtension?, chainsCount)                    *)
(*                                                                         *)
(* <drawn> is what Electra.getRandomMnemonic() gives when it is asked, and *)
(* <fail> names the Electra call that throws: <<"none", 0>>,               *)
(* <<"mnemonic", 0>>, <<"master", 0>> or <<"chain", chainIndex>>.          *)
(***************************************************************************)
validateMnemonic(text) == text \in Mnemonics

FailurePoints(mnemonicArg, chainsCount) ==
    {<<"none", 0>>, <<"master", 0>>}
        \cup (IF mnemonicArg = Undefined THEN {<<"mnemonic", 0>>} ELSE {})
        \cup {<<"chain", k>> : k \in 0..(chainsCount - 1)}

\* the children pushed by the loop of STEP 3 before it ends or throws
DerivedChains(masterKey, count) ==
    [i \in 1..count |->
        WithNullLabel(getDerivedChainFromMasterNodePrivateKey(masterKey, WALLET_INDEX, i - 1))]

\* generate() refuses a wallet that is READY
generateRejected_Never == FALSE

generateRejected == WALLET_STATE = READY

\* line 221 is reached only when no derivation threw
generatedState_AlwaysReady(fail) == READY

generatedState(fail) == IF fail[1] = "chain" THEN WALLET_STATE ELSE READY

\* how many children the loop of STEP 3 has pushed when it ends or throws
pushedChains_RolledBack(chainsCount, fail) == IF fail[1] = "chain" THEN 0 ELSE chainsCount

pushedChains(chainsCount, fail) == IF fail[1] = "chain" THEN fail[2] ELSE chainsCount

\* the Electra call that threw, as the record of the call shows it
Thrower(fail) ==
    IF fail[1] = "none" THEN <<>>
    ELSE <<[callee |-> CASE fail[1] = "mnemonic" -> "Electra.getRandomMnemonic"
                         [] fail[1] = "master" -> "Electra.getMasterNodeAddressFromMnemonic"
                         [] OTHER -> "Electra.getDerivedChainFromMasterNodePrivateKey",
            chainIndex |-> fail[2]]>>

generate(mnemonicArg, mnemonicExtension, chainsCount, drawn, fail) ==
    LET used == IF mnemonicArg # Undefined THEN mnemonicArg ELSE drawn
        master == WithNullLabel(getMasterNodeAddressFromMnemonic(used, mnemonicExtension))
        pushed == pushedChains(chainsCount, fail)
        args == [mnemonic |-> mnemonicArg, mnemonicExtension |-> mnemonicExtension,
                 chainsCount |-> chainsCount]
    IN
    /\ constructed
    /\ Len(ADDRESSES) + chainsCount <= MaxAddresses
    /\ IF generateRejected
       THEN /\ UNCHANGED fields
            /\ Record("generate", args, "StateError", <<>>, <<>>)
       ELSE IF mnemonicArg # Undefined /\ ~validateMnemonic(mnemonicArg)
       THEN /\ UNCHANGED fields
            /\ Record("generate", args, "InvariantViolation", <<>>, <<>>)
       ELSE IF fail[1] = "mnemonic"
       THEN /\ UNCHANGED fields
            /\ Record("generate", args, "DerivationError", <<>>, Thrower(fail))
       ELSE /\ MNEMONIC' = IF mnemonicArg = Undefined THEN drawn ELSE MNEMONIC
            /\ IF fail[1] = "master"
               THEN /\ UNCHANGED <<WALLET_STATE, ADDRESSES, RANDOM_ADDRESSES,
                                   MASTER_NODE_ADDRESS, IS_LOCKED, TRANSACTIONS>>
                    /\ Record("generate", args, "DerivationError", <<>>, Thrower(fail))
               ELSE /\ MASTER_NODE_ADDRESS' = master
                    /\ ADDRESSES' = ADDRESSES \o DerivedChains(master.privateKey, pushed)
                    /\ WALLET_STATE' = generatedState(fail)
                    /\ UNCHANGED <<RANDOM_ADDRESSES, IS_LOCKED, TRANSACTIONS>>
                    /\ RecordFrom("generate", args,
                                  IF fail[1] = "chain" THEN "DerivationError" ELSE "ok",
                                  <<>>, Thrower(fail), ADDRESSES)
    /\ UNCHANGED <<constructed, rpc, balance>>

(***************************************************************************)
(* lock(passphrase) and unlock(passphrase, forStakingOnly)                 *)
(***************************************************************************)
\* the addresses a local lock() or unlock() goes through, in its order
Held ==
    (IF MASTER_NODE_ADDRESS # UndefinedAddress THEN <<MASTER_NODE_ADDRESS>> ELSE <<>>)
        \o ADDRESSES \o RANDOM_ADDRESSES

RECURSIVE CountIf(_, _)
\* how many addresses of <list> have isCiphered = <flag>
CountIf(list, flag) ==
    IF list = <<>> THEN 0
    ELSE (IF Head(list).isCiphered = flag THEN 1 ELSE 0) + CountIf(Tail(list), flag)

RECURSIVE CipherUpTo(_, _, _)
\* lock()'s pass over <list>, where the <failAt>-th call of Crypto.cipherPrivateKey
\* throws (0: none does); the addresses after the throw are not visited
CipherUpTo(list, passphrase, failAt) ==
    IF list = <<>> THEN <<>>
    ELSE IF Head(list).isCiphered
         THEN <<Head(list)>> \o CipherUpTo(Tail(list), passphrase, failAt)
    ELSE IF failAt = 1 THEN list
    ELSE <<[Head(list) EXCEPT !.privateKey = cipherPrivateKey(@, passphrase)]>>
            \o CipherUpTo(Tail(list), passphrase, IF failAt = 0 THEN 0 ELSE failAt - 1)

RECURSIVE CipherInputs(_, _)
\* the keys lock() hands to Crypto.cipherPrivateKey, the throwing call included
CipherInputs(list, failAt) ==
    IF list = <<>> THEN <<>>
    ELSE IF Head(list).isCiphered THEN CipherInputs(Tail(list), failAt)
    ELSE IF failAt = 1 THEN <<Head(list).privateKey>>
    ELSE <<Head(list).privateKey>>
            \o CipherInputs(Tail(list), IF failAt = 0 THEN 0 ELSE failAt - 1)

RECURSIVE DecipherAll(_, _)
\* unlock()'s pass over <list>; it stops at the first call of
\* Crypto.decipherPrivateKey that throws
DecipherAll(list, passphrase) ==
    IF list = <<>> THEN [ok |-> TRUE, out |-> <<>>]
    ELSE LET a == Head(list)
             rest == DecipherAll(Tail(list), passphrase)
         IN  IF ~a.isCiphered THEN [ok |-> rest.ok, out |-> <<a>> \o rest.out]
             ELSE IF ~CanDecipher(a.privateKey, passphrase)
                  THEN [ok |-> FALSE, out |-> list]
             ELSE [ok |-> rest.ok,
                   out |-> <<[a EXCEPT !.privateKey = decipherPrivateKey(@, passphrase)]>>
                            \o rest.out]

\* writes a list of held addresses back to the three fields it came from
Store(list) ==
    LET m == IF MASTER_NODE_ADDRESS # UndefinedAddress THEN 1 ELSE 0
        n == Len(ADDRESSES)
    IN  /\ MASTER_NODE_ADDRESS' = IF m = 1 THEN list[1] ELSE MASTER_NODE_ADDRESS
        /\ ADDRESSES' = SubSeq(list, m + 1, m + n)
        /\ RANDOM_ADDRESSES' = SubSeq(list, m + n + 1, Len(list))

\* the remote path of lock(): tryCatch(this.rpc.lock.bind(this)) calls the async
\* Rpc.lock with the wallet as its <this>; an async function never throws to its
\* caller, so <err> is null whatever becomes of the promise
lockRemote(passphrase) ==
    /\ IS_LOCKED' = TRUE
    /\ UNCHANGED <<WALLET_STATE, ADDRESSES, RANDOM_ADDRESSES, MASTER_NODE_ADDRESS,
                   MNEMONIC, TRANSACTIONS>>
    /\ Record("lock", [passphrase |-> passphrase], "ok", <<>>,
              <<[callee |-> "Rpc.lock", boundThis |-> "Wallet", params |-> <<>>,
                 promise |-> "rejected"]>>)

lockLocal(passphrase, failAt) ==
    /\ Store(CipherUpTo(Held, passphrase, failAt))
    /\ MNEMONIC' = IF failAt = 0 THEN Undefined ELSE MNEMONIC
    /\ IS_LOCKED' = IF failAt = 0 THEN TRUE ELSE IS_LOCKED
    /\ UNCHANGED <<WALLET_STATE, TRANSACTIONS>>
    /\ RecordFrom("lock", [passphrase |-> passphrase],
                  IF failAt = 0 THEN "ok" ELSE "CipherError", <<>>,
                  CipherInputs(Held, failAt), Held)

lock(passphrase, failAt) ==
    /\ constructed
    /\ \A i \in 1..Len(Held) : Len(Held[i].privateKey.layers) < MaxCipherDepth
    /\ IF WALLET_STATE # READY
       THEN /\ failAt = 0
            /\ UNCHANGED fields
            /\ Record("lock", [passphrase |-> passphrase], "StateError", <<>>, <<>>)
       ELSE IF rpc
       THEN /\ failAt = 0
            /\ lockRemote(passphrase)
       ELSE /\ failAt \in 0..CountIf(Held, FALSE)
            /\ lockLocal(passphrase, failAt)
    /\ UNCHANGED <<constructed, rpc, balance>>

\* the remote path of unlock(): the async Rpc.unlock is called and its promise is
\* dropped, so <err> is null whether the node accepts the passphrase or not
unlockRemote(passphrase, forStakingOnly, promise) ==
    /\ IS_LOCKED' = FALSE
    /\ UNCHANGED <<WALLET_STATE, ADDRESSES, RANDOM_ADDRESSES, MASTER_NODE_ADDRESS,
                   MNEMONIC, TRANSACTIONS>>
    /\ Record("unlock", [passphrase |-> passphrase, forStakingOnly |-> forStakingOnly],
              "ok", <<>>,
              <<[callee |-> "Rpc.unlock", boundThis |-> "Rpc",
                 params |-> <<passphrase, ONE_YEAR_IN_SECONDS, forStakingOnly>>,
                 promise |-> promise]>>)

unlockLocal(passphrase, forStakingOnly) ==
    LET done == DecipherAll(Held, passphrase)
    IN  /\ Store(done.out)
        /\ IS_LOCKED' = IF done.ok THEN FALSE ELSE IS_LOCKED
        /\ UNCHANGED <<WALLET_STATE, MNEMONIC, TRANSACTIONS>>
        /\ RecordFrom("unlock",
                      [passphrase |-> passphrase, forStakingOnly |-> forStakingOnly],
                      IF done.ok THEN "ok" ELSE "CipherError", <<>>, <<>>, Held)

unlock(passphrase, forStakingOnly, promise) ==
    /\ constructed
    /\ IF WALLET_STATE # READY
       THEN /\ promise = "none"
            /\ UNCHANGED fields
            /\ Record("unlock", [passphrase |-> passphrase, forStakingOnly |-> forStakingOnly],
                      "StateError", <<>>, <<>>)
       ELSE IF rpc
       THEN /\ promise \in {"resolved", "rejected"}
            /\ unlockRemote(passphrase, forStakingOnly, promise)
       ELSE /\ promise = "none"
            /\ unlockLocal(passphrase, forStakingOnly)
    /\ UNCHANGED <<constructed, rpc, balance>>


(***************************************************************************)
(* export(unsafe)                                                          *)
(***************************************************************************)
\* the JavaScript value null, where an address may stand
NullAddress == [null |-> TRUE]

WalletData_MasterUndefined ==
    [chainsCount |-> Len(ADDRESSES), masterNodeAddress |-> MASTER_NODE_ADDRESS,
     randomAddresses |-> RANDOM_ADDRESSES]

WalletData ==
    [chainsCount |-> Len(ADDRESSES),
     masterNodeAddress |-> IF MASTER_NODE_ADDRESS # UndefinedAddress
                           THEN MASTER_NODE_ADDRESS ELSE NullAddress,
     randomAddresses |-> RANDOM_ADDRESSES]

exportResult_NoLockedCheck(unsafe) ==
    IF WALLET_STATE # READY THEN "StateError"
    ELSE IF ~IS_LOCKED /\ ~unsafe THEN "InvariantViolation"
    ELSE "ok"

\* the kind of error export(unsafe) throws, or "ok"
exportResult(unsafe) ==
    IF WALLET_STATE # READY THEN "StateError"
    ELSE IF ~IS_LOCKED /\ ~unsafe THEN "InvariantViolation"
    ELSE IF IS_LOCKED /\ unsafe THEN "InvariantViolation"
    ELSE "ok"

export(unsafe) ==
    /\ constructed
    /\ UNCHANGED <<constructed, rpc, fields, balance>>
    /\ Record("export", [unsafe |-> unsafe], exportResult(unsafe),
              IF exportResult(unsafe) = "ok" THEN WalletData ELSE <<>>, <<>>)

(***************************************************************************)
(* importRandomAddress(address, passphrase?, isHDMasterNode)               *)
(***************************************************************************)
\* the passphrase under which a caller's ciphered key was ciphered
ImportPassphrase == "p"

\* the address records a caller may pass: a WIF key, plain or ciphered once, with
\* isCiphered telling which, either value of isHD and no hash computed yet
ImportableAddresses ==
    {[hash |-> NoHash,
      privateKey |-> [PlainKey("wif", k, "", 0, 0) EXCEPT !.layers = l],
      isCiphered |-> (l # <<>>), isHD |-> h, label |-> "null"] :
        k \in ImportKeys, l \in {<<>>, <<ImportPassphrase>>}, h \in BOOLEAN}

importResult_NoMasterCheck(address, passphrase, isHDMasterNode) ==
    IF address.isCiphered /\ passphrase = Undefined THEN "InvariantViolation"
    ELSE IF address.isCiphered /\ ~CanDecipher(address.privateKey, passphrase)
         THEN "CipherError"
    ELSE IF isHDMasterNode /\ state.value = READY /\ isHD.value THEN "InvariantViolation"
    ELSE "ok"

importResult_NoPassphraseCheck(address, passphrase, isHDMasterNode) ==
    IF isHDMasterNode /\ MASTER_NODE_ADDRESS # UndefinedAddress THEN "InvariantViolation"
    ELSE IF address.isCiphered /\ ~CanDecipher(address.privateKey, passphrase)
         THEN "CipherError"
    ELSE IF isHDMasterNode /\ state.value = READY /\ isHD.value THEN "InvariantViolation"
    ELSE "ok"

\* the kind of error importRandomAddress throws, or "ok"
importResult(address, passphrase, isHDMasterNode) ==
    IF isHDMasterNode /\ MASTER_NODE_ADDRESS # UndefinedAddress THEN "InvariantViolation"
    ELSE IF address.isCiphered /\ passphrase = Undefined THEN "InvariantViolation"
    ELSE IF address.isCiphered /\ ~CanDecipher(address.privateKey, passphrase)
         THEN "CipherError"
    ELSE IF IsCipheredKey(IF address.isCiphered
                          THEN decipherPrivateKey(address.privateKey, passphrase)
                          ELSE address.privateKey)
         THEN "DerivationError"
    ELSE IF isHDMasterNode /\ state.value = READY /\ isHD.value THEN "InvariantViolation"
    ELSE "ok"

\* the caller's address record as the method leaves it when it does not throw
Imported(address, passphrase, isHDMasterNode) ==
    LET key == IF address.isCiphered
               THEN decipherPrivateKey(address.privateKey, passphrase)
               ELSE address.privateKey
    IN  [hash |-> getAddressHashFromPrivateKey(key), privateKey |-> key,
         isCiphered |-> FALSE,
         isHD |-> IF isHDMasterNode THEN TRUE ELSE address.isHD,
         label |-> address.label]

importRandomAddress(address, passphrase, isHDMasterNode) ==
    LET args == [isCiphered |-> address.isCiphered, passphrase |-> passphrase,
                 isHDMasterNode |-> isHDMasterNode]
        result == importResult(address, passphrase, isHDMasterNode)
        io == IF address.isCiphered /\ passphrase # Undefined
                 /\ ~(isHDMasterNode /\ MASTER_NODE_ADDRESS # UndefinedAddress)
              THEN <<[callee |-> "Crypto.decipherPrivateKey", key |-> address.privateKey]>>
              ELSE <<>>
    IN
    /\ constructed
    /\ isHDMasterNode \/ Len(RANDOM_ADDRESSES) < MaxRandom
    /\ IF result # "ok"
       THEN UNCHANGED fields
       ELSE IF isHDMasterNode
       THEN /\ MASTER_NODE_ADDRESS' = Imported(address, passphrase, isHDMasterNode)
            /\ UNCHANGED <<WALLET_STATE, ADDRESSES, RANDOM_ADDRESSES, MNEMONIC,
                           IS_LOCKED, TRANSACTIONS>>
       ELSE /\ RANDOM_ADDRESSES' =
                   Append(RANDOM_ADDRESSES, Imported(address, passphrase, isHDMasterNode))
            /\ UNCHANGED <<WALLET_STATE, ADDRESSES, MASTER_NODE_ADDRESS, MNEMONIC,
                           IS_LOCKED, TRANSACTIONS>>
    /\ Record("importRandomAddress", args, result, <<>>, io)
    /\ UNCHANGED <<constructed, rpc, balance>>

(***************************************************************************)
(* reset()                                                                 *)
(***************************************************************************)
\* reset() refuses a wallet that is EMPTY
resetRejected == WALLET_STATE = EMPTY

reset ==
    /\ constructed
    /\ IF resetRejected
       THEN /\ UNCHANGED fields
            /\ Record("reset", <<>>, "StateError", <<>>, <<>>)
       ELSE /\ MASTER_NODE_ADDRESS' = UndefinedAddress
            /\ MNEMONIC' = Undefined
            /\ ADDRESSES' = <<>>
            /\ RANDOM_ADDRESSES' = <<>>
            /\ WALLET_STATE' = EMPTY
            /\ TRANSACTIONS' = <<>>
            /\ UNCHANGED IS_LOCKED
            /\ Record("reset", <<>>, "ok", <<>>, <<>>)
    /\ UNCHANGED <<constructed, rpc, balance>>

(***************************************************************************)
(* getBalance(addressHash?)                                                *)
(*                                                                         *)
(* The method is async: getBalance() runs it up to its first await (or to  *)
(* its end), resumeBalance() from one await to the next.  While it is      *)
(* suspended <balance> holds its local variables.                          *)
(***************************************************************************)
\* addressHash === undefined
UndefinedHash == [undefined |-> TRUE]
\* the hash of an address the wallet never holds
ForeignHash == getAddressHashFromPrivateKey(PlainKey("wif", "foreign", "", 0, 0))
\* the amounts webServices.getBalanceFor may resolve to
Amounts == {1, 2}

Hashes(list) == [i \in 1..Len(list) |-> list[i].hash]

\* addresses.filter(address => address.hash === addressHash).length === 0
isMember_Always(held, addressHash) == TRUE

isMember(held, addressHash) == \E i \in 1..Len(held) : held[i] = addressHash

\* balanceTotal += balance
nextTotal_Overwrite(balanceTotal, amount) == amount

nextTotal(balanceTotal, amount) == balanceTotal + amount

\* the call ends: its promise is settled and its local variables are gone;
\* <queries> are the hashes passed to webServices.getBalanceFor in order and
\* <answers> what it settled with
settleBalance(addressHash, result, ret, queries, answers, atCall) ==
    /\ RecordFrom("getBalance", [addressHash |-> addressHash], result, ret,
                  [queries |-> queries, answers |-> answers], atCall)
    /\ balance' = NoBalance

\* the call is suspended at an await: its caller holds a pending promise
pendingBalance(addressHash) ==
    Record("getBalance", [addressHash |-> addressHash], "pending", <<>>, <<>>)

\* the head of the while loop, entered with <index> not yet decremented
balanceLoop(index, balanceTotal, queries, answers, atCall) ==
    IF index - 1 < 0
    THEN settleBalance(UndefinedHash, "ok", <<balanceTotal>>, queries, answers, atCall)
    ELSE IF ~allAddresses.ok
    THEN settleBalance(UndefinedHash, allAddresses.value, <<>>, queries, answers, atCall)
    ELSE IF index - 1 >= Len(allAddresses.value)
    THEN settleBalance(UndefinedHash, "TypeError", <<>>, queries, answers, atCall)
    ELSE /\ balance' = [pc |-> "all", addressHash |-> UndefinedHash,
                        index |-> index - 1, balanceTotal |-> balanceTotal,
                        queries |-> Append(queries, allAddresses.value[index].hash),
                        answers |-> answers, atCall |-> atCall]
         /\ pendingBalance(UndefinedHash)

getBalance(addressHash) ==
    /\ constructed
    /\ balance.pc = "idle"
    /\ UNCHANGED <<constructed, rpc, fields>>
    /\ IF WALLET_STATE = EMPTY
       THEN settleBalance(addressHash, "StateError", <<>>, <<>>, <<>>, <<>>)
       ELSE LET held == Hashes(allAddresses.value)
            IN  IF addressHash # UndefinedHash
                THEN IF ~isMember(held, addressHash)
                     THEN settleBalance(addressHash, "MembershipError", <<>>, <<>>, <<>>,
                                        held)
                     ELSE /\ balance' = [pc |-> "single", addressHash |-> addressHash,
                                         index |-> 0, balanceTotal |-> 0,
                                         queries |-> <<addressHash>>, answers |-> <<>>,
                                         atCall |-> held]
                          /\ pendingBalance(addressHash)
                ELSE balanceLoop(Len(held), 0, <<>>, <<>>, held)

\* webServices.getBalanceFor settles: <outcome> is "amount" with the amount,
\* "undefined" for a promise resolved with undefined, or "rejected"
resumeBalance(outcome) ==
    LET answers == Append(balance.answers, outcome)
    IN
    /\ balance.pc # "idle"
    /\ UNCHANGED <<constructed, rpc, fields>>
    /\ IF outcome.kind = "rejected"
       THEN settleBalance(balance.addressHash, "TransportError", <<>>,
                          balance.queries, answers, balance.atCall)
       ELSE IF balance.pc = "single"
       THEN settleBalance(balance.addressHash, "ok",
                          IF outcome.kind = "amount" THEN <<outcome.amount>> ELSE <<>>,
                          balance.queries, answers, balance.atCall)
       ELSE IF outcome.kind = "undefined"
       THEN settleBalance(balance.addressHash, "NullError", <<>>,
                          balance.queries, answers, balance.atCall)
       ELSE balanceLoop(balance.index, nextTotal(balance.balanceTotal, outcome.amount),
                        balance.queries, answers, balance.atCall)

\* the hashes a caller may ask the balance of
BalanceArguments ==
    {UndefinedHash, ForeignHash}
        \cup (IF allAddresses.ok
              THEN {allAddresses.value[i].hash : i \in 1..Len(allAddresses.value)}
              ELSE {})

BalanceOutcomes ==
    {[kind |-> "amount", amount |-> a] : a \in Amounts}
        \cup {[kind |-> k, amount |-> 0] : k \in {"undefined", "rejected"}}

(***************************************************************************)
(* The specification.                                                      *)
(***************************************************************************)
\* The callers.  A method is called with any of the arguments listed, and only
\* while no getBalance() is suspended.
Idle == balance.pc = "idle"

Construct == \E hasUri \in BOOLEAN, hasAuth \in BOOLEAN : Constructor(hasUri, hasAuth)

Generate ==
    /\ Idle
    /\ \E m \in Mnemonics \cup {BadMnemonic, Undefined}, e \in Extensions,
          n \in 0..MaxChains :
          \E drawn \in (IF m = Undefined /\ WALLET_STATE # READY THEN Mnemonics ELSE {m}),
             fail \in (IF WALLET_STATE # READY /\ m # BadMnemonic
                       THEN FailurePoints(m, n) ELSE {<<"none", 0>>}) :
             generate(m, e, n, drawn, fail)

Lock == Idle /\ \E p \in Passphrases, failAt \in 0..Len(Held) : lock(p, failAt)

Unlock ==
    /\ Idle
    /\ \E p \in Passphrases, s \in BOOLEAN :
          \E promise \in (IF WALLET_STATE = READY /\ rpc
                          THEN {"resolved", "rejected"} ELSE {"none"}) :
             unlock(p, s, promise)

Export == Idle /\ \E unsafe \in BOOLEAN : export(unsafe)

ImportRandomAddress ==
    /\ Idle
    /\ \E a \in ImportableAddresses, p \in Passphrases \cup {Undefined},
          hd \in BOOLEAN : importRandomAddress(a, p, hd)

Reset == Idle /\ reset

GetBalance == \E h \in BalanceArguments : getBalance(h)

ResumeBalance == \E outcome \in BalanceOutcomes : resumeBalance(outcome)

Next ==
    \/ Construct
    \/ Generate
    \/ Lock
    \/ Unlock
    \/ Export
    \/ ImportRandomAddress
    \/ Reset
    \/ GetBalance
    \/ ResumeBalance

Spec == Init /\ [][Next]_vars

(***************************************************************************)
(* Properties.                                                             *)
(***************************************************************************)
\* the wallet holds its keys itself (it is not bound to a remote node)
Local == constructed /\ ~rpc

\* <op> has just returned without throwing
Returns(op) == last.op = op /\ last.result = "ok"

\* every held address is marked ciphered and holds a ciphered key
AllCiphered ==
    \A i \in 1..Len(Held) : Held[i].isCiphered /\ IsCipheredKey(Held[i].privateKey)

\* every held address is marked plaintext and holds a plaintext key
AllPlaintext ==
    \A i \in 1..Len(Held) : ~Held[i].isCiphered /\ ~IsCipheredKey(Held[i].privateKey)

\* C1: on a local READY wallet, isLocked = true means that every held address
\* (master node, HD, random) is marked ciphered and holds a ciphered key, and
\* isLocked = false that every one is marked plaintext and holds a plaintext key.
C1_LockedMeansCiphered ==
    (Local /\ WALLET_STATE = READY) =>
        /\ IS_LOCKED => AllCiphered
        /\ ~IS_LOCKED => AllPlaintext

\* C2: on a local wallet, unlock(p) right after lock(p) gives every held address
\* the plaintext key it had before the lock; every address is marked ciphered
\* after the lock and plaintext after the unlock.
C2_LockUnlockRoundTrip ==
    [][(/\ Local
        /\ Returns("lock")
        /\ last'.op = "unlock" /\ last'.result = "ok"
        /\ last'.args.passphrase = last.args.passphrase)
       => /\ \A i \in 1..Len(Held) : Held[i].isCiphered
          /\ Len(Held') = Len(last.before)
          /\ \A i \in 1..Len(Held') :
                /\ Held'[i].privateKey = last.before[i].privateKey
                /\ ~IsCipheredKey(Held'[i].privateKey)
                /\ ~Held'[i].isCiphered]_vars

\* C3: on a local wallet, a second lock(p) right after lock(p) leaves every key as
\* the first lock left it and hands no ciphered key to the CipherService; a second
\* unlock(p) right after unlock(p) leaves every key unchanged.
C3_LockUnlockIdempotent ==
    [][Local =>
        /\ (/\ Returns("lock")
            /\ last'.op = "lock" /\ last'.result = "ok"
            /\ last'.args.passphrase = last.args.passphrase)
           => /\ Held' = Held
              /\ \A k \in 1..Len(last'.io) : ~IsCipheredKey(last'.io[k])
        /\ (/\ Returns("unlock")
            /\ last'.op = "unlock" /\ last'.result = "ok"
            /\ last'.args.passphrase = last.args.passphrase)
           => Held' = Held]_vars

\* the private keys of a snapshot returned by export()
SnapshotKeys(data) ==
    (IF data.masterNodeAddress # NullAddress
     THEN {data.masterNodeAddress.privateKey} ELSE {})
        \cup {data.randomAddresses[i].privateKey : i \in 1..Len(data.randomAddresses)}

\* C4: on a local wallet, every key of the snapshot of a successful
\* export(unsafe=false) is ciphered: no successful export(unsafe=false) contains
\* a plaintext private key.
C4_ExportSafety ==
    (Local /\ Returns("export") /\ ~last.args.unsafe) =>
        \A key \in SnapshotKeys(last.ret) : IsCipheredKey(key)

\* C5: export(unsafe) succeeds exactly when the state is READY and exactly one of
\* isLocked and unsafe is true, and a failing export changes no field.
C5_ExportGuard ==
    last.op = "export" =>
        /\ (last.result = "ok") <=>
               (last.was.STATE = READY /\ last.was.IS_LOCKED # last.args.unsafe)
        /\ last.result # "ok" => last.changed = {}

\* export(unsafe=true) has just been refused on a READY wallet that lock() locked
C5_Witness ==
    /\ last.op = "export" /\ last.result = "InvariantViolation"
    /\ last.args.unsafe /\ last.was.IS_LOCKED /\ last.was.STATE = READY
    /\ Len(Held) > 0 /\ \A i \in 1..Len(Held) : IsCipheredKey(Held[i].privateKey)

\* C6: while the state is EMPTY the accessors addresses, randomAddresses,
\* allAddresses, isHD, isLocked, mnemonic and transactions throw a state error.
C6_EmptyAccessorsThrow ==
    (constructed /\ WALLET_STATE = EMPTY) =>
        \A got \in {addresses, randomAddresses, allAddresses, isHD, isLocked,
                    mnemonic, transactions} : got = Thrown("StateError")

\* the state is EMPTY after a generate() that failed with its mnemonic retained
C6_Witness ==
    /\ constructed /\ WALLET_STATE = EMPTY
    /\ last.op = "generate" /\ last.result = "DerivationError"
    /\ MNEMONIC # Undefined /\ Len(ADDRESSES) > 0

\* C7: generate() on a READY wallet and reset() on an EMPTY wallet throw a state
\* error and leave every field unchanged.
C7_LifecycleGuards ==
    /\ (last.op = "generate" /\ last.was.STATE = READY)
          => (last.result = "StateError" /\ last.changed = {})
    /\ (last.op = "reset" /\ last.was.STATE = EMPTY)
          => (last.result = "StateError" /\ last.changed = {})

\* a second generate() has just been refused on a wallet that holds addresses
C7_Witness ==
    /\ last.op = "generate" /\ last.result = "StateError"
    /\ last.was.STATE = READY /\ Len(ADDRESSES) > 0 /\ ~rpc

\* the last call made a change of state that the lifecycle allows
AllowedTransition ==
    \/ /\ last.was.STATE = EMPTY /\ WALLET_STATE = READY
       /\ last.op \in {"generate", "importRandomAddress"} /\ last.result = "ok"
    \/ /\ last.was.STATE = READY /\ WALLET_STATE = EMPTY
       /\ last.op = "reset" /\ last.result = "ok"

C9_ImportMakesReady ==
    Returns("importRandomAddress") =>
        /\ WALLET_STATE = READY
        /\ randomAddresses.ok /\ isHD.ok
        /\ IF last.args.isHDMasterNode
           THEN isHD.value
           ELSE Len(randomAddresses.value) > 0

\* C10: importRandomAddress with isHDMasterNode = true on a wallet that holds a
\* master node address throws an invariant violation and leaves the master node
\* address, the random addresses and the state unchanged.
C10_SingleMasterNode ==
    (/\ last.op = "importRandomAddress"
     /\ last.args.isHDMasterNode
     /\ last.was.master)
        => /\ last.result = "InvariantViolation"
           /\ last.changed \cap {"MASTER_NODE_ADDRESS", "RANDOM_ADDRESSES", "STATE"} = {}

\* a second master node, passed in plaintext, has just been refused while the
\* state is still EMPTY
C10_Witness ==
    /\ last.op = "importRandomAddress" /\ last.result = "InvariantViolation"
    /\ last.args.isHDMasterNode /\ ~last.args.isCiphered
    /\ last.was.master /\ MASTER_NODE_ADDRESS # UndefinedAddress
    /\ WALLET_STATE = EMPTY

\* the last importRandomAddress was passed a ciphered address
ImportedCiphered == last.op = "importRandomAddress" /\ last.args.isCiphered

\* ... together with a passphrase other than the one its key was ciphered with
WrongPassphrase == last.args.passphrase \notin {Undefined, ImportPassphrase}

\* C11 as claimed: importRandomAddress with a ciphered address fails with an
\* invariant violation when no passphrase is given and with the CipherService
\* error when the passphrase is incorrect, and changes no field of the wallet.
C11_Original ==
    ImportedCiphered =>
        /\ last.args.passphrase = Undefined
              => (last.result = "InvariantViolation" /\ last.changed = {})
        /\ WrongPassphrase => (last.result = "CipherError" /\ last.changed = {})

\* C11: importRandomAddress with a ciphered address fails with an invariant
\* violation when no passphrase is given; when the passphrase is incorrect it
\* fails with the CipherService error, except that with isHDMasterNode = true on a
\* wallet that holds a master node it fails with an invariant violation before
\* the CipherService is called; in every one of these cases no field of the
\* wallet changes.
C11_ImportCipheredErrors ==
    ImportedCiphered =>
        /\ last.args.passphrase = Undefined
              => (last.result = "InvariantViolation" /\ last.changed = {})
        /\ WrongPassphrase =>
              /\ last.result = IF last.args.isHDMasterNode /\ last.was.master
                               THEN "InvariantViolation" ELSE "CipherError"
              /\ last.io = <<>> <=> (last.args.isHDMasterNode /\ last.was.master)
              /\ last.changed = {}

\* a ciphered address has just been refused for its incorrect passphrase by a
\* READY wallet that holds a master node, a chain address and a random address
C11_Witness ==
    /\ ImportedCiphered /\ WrongPassphrase /\ last.result = "CipherError"
    /\ WALLET_STATE = READY /\ MASTER_NODE_ADDRESS # UndefinedAddress
    /\ Len(ADDRESSES) > 0 /\ Len(RANDOM_ADDRESSES) = 0

\* C12: after a successful generate(mnemonic?, extension?, n) the state is READY,
\* isHD is true, the master node address is set, addresses holds exactly the n
\* children derived at chain indices 0..n-1 in that order, and mnemonic is
\* defined if no mnemonic was passed.
C12_GeneratePostcondition ==
    Returns("generate") =>
        /\ WALLET_STATE = READY
        /\ isHD = Returned(TRUE)
        /\ MASTER_NODE_ADDRESS # UndefinedAddress
        /\ ADDRESSES = DerivedChains(MASTER_NODE_ADDRESS.privateKey, last.args.chainsCount)
        /\ last.args.mnemonic = Undefined => mnemonic.ok

\* C13: the mnemonic accessor returns no value after a successful lock(), local
\* or remote, nor after a successful import of a master node.
C13_MnemonicPurged ==
    (\/ Returns("lock")
     \/ Returns("importRandomAddress") /\ last.args.isHDMasterNode)
        => ~mnemonic.ok

\* C14: where the mnemonic accessor returns a value, it is the mnemonic the master
\* node address was derived from, and a generate() that has just succeeded was
\* called without a mnemonic: after a successful generate() with a mnemonic of
\* the caller the accessor fails.
C14_MnemonicOnlyWhenFresh ==
    mnemonic.ok =>
        /\ MASTER_NODE_ADDRESS # UndefinedAddress
        /\ MASTER_NODE_ADDRESS.privateKey.seed = mnemonic.value
        /\ Returns("generate") => last.args.mnemonic = Undefined

\* C15: no element of ADDRESSES or RANDOM_ADDRESSES has isHD = true, so the only
\* held address that may have it is the master node address.
C15_OnlyMasterIsHD ==
    /\ \A i \in 1..Len(ADDRESSES) : ~ADDRESSES[i].isHD
    /\ \A i \in 1..Len(RANDOM_ADDRESSES) : ~RANDOM_ADDRESSES[i].isHD

\* a getBalance() call on a READY wallet has settled; last.before holds the hashes
\* of allAddresses when it was called
BalanceSettled ==
    last.op = "getBalance" /\ last.result # "pending" /\ last.was.STATE = READY

\* C16: getBalance(addressHash) with a hash that is not in allAddresses fails with
\* a membership error without any BalanceService query; with a hash that is in
\* allAddresses it makes exactly one query, for that hash, and returns what the
\* query resolved to or fails with the error it was rejected with.
C16_BalanceMembership ==
    (BalanceSettled /\ last.args.addressHash # UndefinedHash) =>
        IF \A i \in 1..Len(last.before) : last.before[i] # last.args.addressHash
        THEN last.result = "MembershipError" /\ last.io.queries = <<>>
        ELSE /\ last.io.queries = <<last.args.addressHash>>
             /\ Len(last.io.answers) = 1
             /\ LET answer == last.io.answers[1]
                IN  /\ answer.kind = "amount"
                          => (last.result = "ok" /\ last.ret = <<answer.amount>>)
                    /\ answer.kind = "undefined" => (last.result = "ok" /\ last.ret = <<>>)
                    /\ answer.kind = "rejected" => last.result = "TransportError"

\* the balance of the random address of a wallet that also holds a chain address
\* has just been returned
C16_Witness ==
    /\ BalanceSettled /\ last.result = "ok" /\ last.ret = <<2>>
    /\ Len(ADDRESSES) > 0 /\ Len(RANDOM_ADDRESSES) > 0
    /\ last.args.addressHash = RANDOM_ADDRESSES[1].hash

RECURSIVE SumAmounts(_)
\* the sum of the amounts a sequence of answers carries
SumAmounts(answers) ==
    IF answers = <<>> THEN 0 ELSE Head(answers).amount + SumAmounts(Tail(answers))

\* C17: getBalance() without an address queries the BalanceService once per
\* address of allAddresses and returns the sum of the amounts (0 when there is no
\* address); when a query is rejected the call fails with that error, no later
\* address is queried and no total is returned.
C17_BalanceSum ==
    (BalanceSettled /\ last.args.addressHash = UndefinedHash) =>
        LET n == Len(last.before)
            queries == last.io.queries
            answers == last.io.answers
        IN  /\ Len(queries) = Len(answers) /\ Len(queries) <= n
            /\ \A k \in 1..Len(queries) : queries[k] = last.before[n + 1 - k]
            /\ \A k \in 1..(Len(answers) - 1) : answers[k].kind = "amount"
            /\ (\A k \in 1..Len(answers) : answers[k].kind = "amount")
                  => /\ Len(queries) = n
                     /\ last.result = "ok"
                     /\ last.ret = <<SumAmounts(answers)>>
            /\ (answers # <<>> /\ answers[Len(answers)].kind = "rejected")
                  => (last.result = "TransportError" /\ last.ret = <<>>)

\* the sum of two different amounts has just been returned for a wallet with a
\* chain address and a random address
C17_Witness ==
    /\ BalanceSettled /\ last.args.addressHash = UndefinedHash
    /\ last.result = "ok" /\ last.ret = <<3>>
    /\ Len(last.io.queries) = 2 /\ Len(ADDRESSES) = 1 /\ Len(RANDOM_ADDRESSES) = 1

\* C18: on a wallet bound to a remote node, unlock() issues walletpassphrase with
\* the passphrase, a timeout of one year in seconds and the forStakingOnly flag;
\* when the call of lock() or unlock() to the node fails the error is surfaced
\* and isLocked keeps its value, and isLocked changes only when it succeeds.
C18_RemoteLockMirrors ==
    (rpc /\ last.op \in {"lock", "unlock"} /\ last.was.STATE = READY) =>
        /\ Len(last.io) = 1
        /\ last.op = "unlock" =>
              /\ last.io[1].callee = "Rpc.unlock"
              /\ last.io[1].params =
                    <<last.args.passphrase, 31536000, last.args.forStakingOnly>>
        /\ last.io[1].promise = "rejected"
              => (last.result # "ok" /\ IS_LOCKED = last.was.IS_LOCKED)
        /\ last.io[1].promise = "resolved"
              => (last.result = "ok" /\ IS_LOCKED = (last.op = "lock"))

\* C19: a successful export returns exactly chainsCount, the number of HD chain
\* addresses, masterNodeAddress, the held master node address or null, and
\* randomAddresses, the stored list in its order; and export changes no field.
C19_ExportSnapshot ==
    last.op = "export" =>
        /\ last.changed = {}
        /\ last.result = "ok" =>
              /\ DOMAIN last.ret = {"chainsCount", "masterNodeAddress", "randomAddresses"}
              /\ last.ret.chainsCount = Len(ADDRESSES)
              /\ last.ret.masterNodeAddress =
                    IF MASTER_NODE_ADDRESS = UndefinedAddress
                    THEN NullAddress ELSE MASTER_NODE_ADDRESS
              /\ last.ret.randomAddresses = RANDOM_ADDRESSES

\* a wallet with a master node, two chain addresses and a random address has
\* just been exported
C19_Witness ==
    /\ Returns("export") /\ MASTER_NODE_ADDRESS # UndefinedAddress
    /\ Len(ADDRESSES) = 2 /\ Len(RANDOM_ADDRESSES) = 1
    /\ last.ret.chainsCount = 2

\* C20: a successful reset() leaves the state EMPTY, no master node address, no
\* HD address, no random address, no mnemonic, no transaction and isLocked false.
C20_ResetClearsAll ==
    Returns("reset") =>
        /\ WALLET_STATE = EMPTY
        /\ MASTER_NODE_ADDRESS = UndefinedAddress
        /\ ADDRESSES = <<>> /\ RANDOM_ADDRESSES = <<>>
        /\ MNEMONIC = Undefined
        /\ TRANSACTIONS = <<>>
        /\ IS_LOCKED = FALSE

\* the addresses whose key the last lock() or unlock() changed
Rekeyed == {i \in 1..Len(Held) : Held[i].privateKey # last.before[i].privateKey}

\* C21: when a CipherService call fails part-way through a local lock(p), the
\* error is surfaced, every address ciphered earlier in the call holds its key
\* ciphered with p and is marked ciphered, every other address is as it was,
\* isLocked keeps its value and the mnemonic is not purged; when one fails
\* part-way through a local unlock(p), the addresses deciphered earlier hold the
\* deciphered key, the others are as they were and isLocked keeps its value.
C21_PartialFailure ==
    (Local /\ last.op \in {"lock", "unlock"} /\ last.result = "CipherError") =>
        /\ Len(Held) = Len(last.before)
        /\ IS_LOCKED = last.was.IS_LOCKED
        /\ \A i \in (1..Len(Held)) \ Rekeyed : Held[i] = last.before[i]
        /\ last.op = "lock" =>
              /\ "MNEMONIC" \notin last.changed
              /\ Cardinality(Rekeyed) = Len(last.io) - 1
              /\ \A i \in Rekeyed :
                    /\ Held[i].privateKey =
                          cipherPrivateKey(last.before[i].privateKey, last.args.passphrase)
                    /\ Held[i].isCiphered
        /\ last.op = "unlock" =>
              \A i \in Rekeyed :
                 /\ Held[i].privateKey = decipherPrivateKey(last.before[i].privateKey,
                                                            last.args.passphrase)
                 /\ ~IsCipheredKey(Held[i].privateKey)

\* a generate() call on an EMPTY wallet threw while deriving the child of index k
FailedAtChain ==
    /\ last.op = "generate" /\ last.was.STATE = EMPTY
    /\ last.io # <<>>
    /\ last.io[1].callee = "Electra.getDerivedChainFromMasterNodePrivateKey"

\* C22: generate() with a mnemonic that does not pass validation fails with an
\* invariant violation and changes no field; when the derivation of the child of
\* index k throws, the error is surfaced, the state stays EMPTY, the master node
\* address derived in the call and its children 0..k-1 stay appended to the HD
\* addresses held before, and a mnemonic drawn in the call stays stored.
C22_GenerateFailure ==
    /\ (/\ last.op = "generate" /\ last.was.STATE = EMPTY
        /\ last.args.mnemonic # Undefined /\ last.args.mnemonic \notin Mnemonics)
          => (last.result = "InvariantViolation" /\ last.changed = {})
    /\ FailedAtChain =>
          /\ last.result = "DerivationError"
          /\ WALLET_STATE = EMPTY
          /\ MASTER_NODE_ADDRESS # UndefinedAddress
          /\ MASTER_NODE_ADDRESS.privateKey.src = "master"
          /\ MASTER_NODE_ADDRESS.privateKey.seed =
                IF last.args.mnemonic = Undefined THEN MNEMONIC ELSE last.args.mnemonic
          /\ Len(ADDRESSES) = Len(last.before) + last.io[1].chainIndex
          /\ \A i \in 1..Len(last.before) : ADDRESSES[i] = last.before[i]
          /\ \A j \in 1..last.io[1].chainIndex :
                ADDRESSES[Len(last.before) + j] =
                    WithNullLabel(getDerivedChainFromMasterNodePrivateKey(
                                      MASTER_NODE_ADDRESS.privateKey, 0, j - 1))
          /\ last.args.mnemonic = Undefined => MNEMONIC \in Mnemonics

\* a generate() without a mnemonic has just thrown at chain index 1: the state is
\* EMPTY, and the master node, the child of index 0 and the mnemonic are left
C22_Witness ==
    /\ FailedAtChain /\ last.io[1].chainIndex = 1 /\ last.args.mnemonic = Undefined
    /\ last.before = <<>> /\ Len(ADDRESSES) = 1 /\ WALLET_STATE = EMPTY
    /\ MNEMONIC # Undefined

(***************************************************************************)
(* Calls made while a getBalance() is suspended.  Nothing in the class     *)
(* keeps a caller from calling reset(), generate() or importRandomAddress()*)
(* between two awaits of getBalance(): SpecInterleaved adds these calls to *)
(* the callers of Spec.                                                    *)
(***************************************************************************)
Suspended == balance.pc # "idle"

GenerateWhileSuspended ==
    /\ Suspended
    /\ \E m \in Mnemonics \cup {Undefined}, e \in Extensions, n \in 0..MaxChains :
          \E drawn \in (IF m = Undefined /\ WALLET_STATE # READY THEN Mnemonics ELSE {m}) :
             generate(m, e, n, drawn, <<"none", 0>>)

ImportWhileSuspended ==
    /\ Suspended
    /\ \E a \in {x \in ImportableAddresses : ~x.isCiphered /\ ~x.isHD} :
          importRandomAddress(a, Undefined, FALSE)

ResetWhileSuspended == Suspended /\ reset

NextInterleaved ==
    \/ Next
    \/ GenerateWhileSuspended
    \/ ImportWhileSuspended
    \/ ResetWhileSuspended

SpecInterleaved == Init /\ [][NextInterleaved]_vars

RECURSIVE Reversed(_)
Reversed(list) == IF list = <<>> THEN <<>> ELSE Append(Reversed(Tail(list)), Head(list))

\* C23: a getBalance() without an address that returns, whatever was called on
\* the wallet while it was suspended, has queried exactly the addresses that were
\* in allAddresses when it was called, each once, and returns the sum of their
\* balances.
C23_BalanceUnderInterleaving ==
    (last.op = "getBalance" /\ last.result = "ok"
        /\ last.args.addressHash = UndefinedHash) =>
        /\ last.io.queries = Reversed(last.before)
        /\ last.ret = <<SumAmounts(last.io.answers)>>

====
